---- MODULE Spec2Model ----
(***************************************************************************)
(* Model of vgrouper (src/app.py): the queryset registry, its SQLite       *)
(* metadata store and the validation / repair procedures run against the   *)
(* broker ("Remote Schema Authority").                                     *)
(*                                                                         *)
(* The store is the four tables of db.sqlite.  The file outlives the       *)
(* process (create_all only adds missing tables), so the service starts on *)
(* whatever registry an earlier run left behind: Init draws the store from *)
(* the well-formed registries over a small universe of names.              *)
(*                                                                         *)
(* Every request is one action: it takes its inputs and the broker's       *)
(* answers for the paths it may query, runs the whole handler and leaves   *)
(* the response in `last`; Respond hands the response to the caller.       *)
(*                                                                         *)
(* FastAPI runs the handlers (plain `def`) on a thread pool, each with a   *)
(* Session of its own.  SpecConcurrent runs two requests as two processes  *)
(* whose steps interleave at the points where a handler has read the store *)
(* and not yet committed; `sessions` holds what each Session has loaded    *)
(* and `authority` the broker's schema during the two requests.            *)
(***************************************************************************)
EXTENDS Integers, Sequences, FiniteSets, TLC

VARIABLES maintable, variable, queryset, querysets_variables, last, requests,
          authority, sessions

vars == <<maintable, variable, queryset, querysets_variables, last, requests,
          authority, sessions>>

(***************************************************************************)
(* Bounds of the model.                                                    *)
(***************************************************************************)
MaxRequests == 2

(***************************************************************************)
(* The names the broker's schema and the requests range over.              *)
(***************************************************************************)
TableNames == <<"t1", "t2">>
ColumnNames == <<"a", "b">>
QuerysetNames == <<"q1", "q2">>

Tables == {TableNames[i] : i \in DOMAIN TableNames}
Columns == {ColumnNames[i] : i \in DOMAIN ColumnNames}
Names == {QuerysetNames[i] : i \in DOMAIN QuerysetNames}

\* column_name=None, the default argument of exists_remotely
None == "None"

(***************************************************************************)
(* Sequences without repetition over a set: the orders in which a          *)
(* collection can be listed, and the column lists a request can carry.     *)
(***************************************************************************)
Range(s) == {s[i] : i \in 1..Len(s)}

Orders(S) == {s \in [1..Cardinality(S) -> S] : Range(s) = S}

ColumnLists == UNION {Orders(S) : S \in SUBSET Columns}

(***************************************************************************)
(* The broker.  A request to <BROKER_URL>/table/<table>[/<column>] ends    *)
(* with a status code or with requests.get raising.                        *)
(***************************************************************************)
Responses == {"200", "404", "500", "ConnectionError"}

Path(table_name, column_name) == <<table_name, column_name>>

Paths(table_name, cols) ==
    {Path(table_name, None)} \cup {Path(table_name, c) : c \in cols}

Brokers(table_name, cols) == [Paths(table_name, cols) -> Responses]

\* the paths remote_validate / remote_repair can query for a loaded queryset:
\* exists_remotely uses the queryset's table, MainColumn.remote_validate the
\* variable's own
QuerySetPaths(q, vs) ==
    Paths(q.table_name, {v.name : v \in vs})
        \cup {Path(v.table_name, v.name) : v \in vs}

Returned(v) == [exc |-> "", val |-> v]
Raised(e) == [exc |-> e, val |-> FALSE]

exists_remotely(broker, table_name, column_name) ==
    LET result == broker[Path(table_name, column_name)] IN
    IF result = "ConnectionError" THEN Raised("ConnectionError")
    ELSE IF result = "404" THEN Returned(FALSE)
    ELSE IF result = "200" THEN Returned(TRUE)
    ELSE Raised("ValueError")

MainColumn_remote_validate(broker, v) ==
    LET response == broker[Path(v.table_name, v.name)] IN
    IF response = "ConnectionError" THEN Raised("ConnectionError")
    ELSE Returned(response = "200")

(***************************************************************************)
(* The store as a value, and the reads the ORM makes on it.                *)
(***************************************************************************)
Store == [maintable |-> maintable, variable |-> variable,
          queryset |-> queryset, querysets_variables |-> querysets_variables]

EmptyStore == [maintable |-> {}, variable |-> {},
               queryset |-> {}, querysets_variables |-> {}]

\* sess.query(QuerySet).get(name)
GetQuerySet(st, name) == {q \in st.queryset : q.name = name}

\* QuerySet.variables: the variable rows joined through querysets_variables
QuerySet_variables(st, name) ==
    {v \in st.variable :
        [variable_id |-> v.variable_id, queryset_name |-> name]
            \in st.querysets_variables}

VariableNames(st, name) == {v.name : v \in QuerySet_variables(st, name)}

\* the association rows the ORM removes with a collection it has loaded
LoadedAssociations(st, name, vs) ==
    {[variable_id |-> v.variable_id, queryset_name |-> name] : v \in vs}
        \cap st.querysets_variables

(***************************************************************************)
(* Deleting through the session.  session.delete(variable) removes the     *)
(* variable row only: MainColumn has no relationship to QuerySet, so the   *)
(* ORM leaves the querysets_variables rows that name it, and SQLite does   *)
(* not enforce the foreign key.  session.delete(queryset) removes the row  *)
(* and the association rows of the collection it loads.                    *)
(***************************************************************************)
DeleteVariable(st, v) == [st EXCEPT !.variable = @ \ {v}]

DeleteQuerySet(st, q) ==
    [st EXCEPT !.queryset = @ \ {q},
               !.querysets_variables =
                    @ \ LoadedAssociations(st, q.name, QuerySet_variables(st, q.name))]

(***************************************************************************)
(* QuerySet.remote_validate: the table check, then every variable of the  *)
(* queryset in the order the collection was loaded; an exception of        *)
(* exists_remotely ends the call.  `asked` collects the paths requested.   *)
(***************************************************************************)
RECURSIVE ValidateLoop(_, _, _, _, _, _)
ValidateLoop(broker, table_name, order, i, valid, asked) ==
    IF i > Len(order) THEN [exc |-> "", val |-> valid, asked |-> asked]
    ELSE LET r == exists_remotely(broker, table_name, order[i].name)
             asked2 == asked \cup {Path(table_name, order[i].name)}
         IN IF r.exc # "" THEN [exc |-> r.exc, val |-> FALSE, asked |-> asked2]
            ELSE ValidateLoop(broker, table_name, order, i + 1, valid /\ r.val, asked2)

\* the loop with `valid = ...` in place of `valid &= ...`
RECURSIVE ValidateLoopOverwrite(_, _, _, _, _, _)
ValidateLoopOverwrite(broker, table_name, order, i, valid, asked) ==
    IF i > Len(order) THEN [exc |-> "", val |-> valid, asked |-> asked]
    ELSE LET r == exists_remotely(broker, table_name, order[i].name)
             asked2 == asked \cup {Path(table_name, order[i].name)}
         IN IF r.exc # "" THEN [exc |-> r.exc, val |-> FALSE, asked |-> asked2]
            ELSE ValidateLoopOverwrite(broker, table_name, order, i + 1, r.val, asked2)

QuerySet_remote_validate_overwrite(st, broker, q, order) ==
    LET t == exists_remotely(broker, q.table_name, None)
        r == IF t.exc # ""
             THEN [exc |-> t.exc, val |-> FALSE, asked |-> {Path(q.table_name, None)}]
             ELSE ValidateLoopOverwrite(broker, q.table_name, order, 1, t.val,
                                        {Path(q.table_name, None)})
    IN [store |-> st, exc |-> r.exc, val |-> r.val, asked |-> r.asked,
        commits |-> <<>>]

\* validation that drops the queryset it finds invalid
QuerySet_remote_validate_healing(st, broker, q, order) ==
    LET t == exists_remotely(broker, q.table_name, None)
        r == IF t.exc # ""
             THEN [exc |-> t.exc, val |-> FALSE, asked |-> {Path(q.table_name, None)}]
             ELSE ValidateLoop(broker, q.table_name, order, 1, t.val,
                               {Path(q.table_name, None)})
    IN [store |-> IF r.exc = "" /\ ~r.val THEN DeleteQuerySet(st, q) ELSE st,
        exc |-> r.exc, val |-> r.val, asked |-> r.asked, commits |-> <<>>]

QuerySet_remote_validate(st, broker, q, order) ==
    LET t == exists_remotely(broker, q.table_name, None)
        r == IF t.exc # ""
             THEN [exc |-> t.exc, val |-> FALSE, asked |-> {Path(q.table_name, None)}]
             ELSE ValidateLoop(broker, q.table_name, order, 1, t.val,
                               {Path(q.table_name, None)})
    IN [store |-> st, exc |-> r.exc, val |-> r.val, asked |-> r.asked,
        commits |-> <<>>]

(***************************************************************************)
(* QuerySet.remote_repair.  `bound` tells whether the local name sess has  *)
(* been assigned; every sess.commit() that succeeds appends the store it   *)
(* made durable to `commits`.  The loop runs over the collection as it was *)
(* loaded.                                                                 *)
(***************************************************************************)
RECURSIVE RepairLoop(_, _, _, _, _, _, _)
RepairLoop(st, broker, order, i, bound, commits, asked) ==
    IF i > Len(order)
    THEN [store |-> st, exc |-> "", val |-> TRUE, asked |-> asked, commits |-> commits]
    ELSE LET r == MainColumn_remote_validate(broker, order[i])
             asked2 == asked \cup {Path(order[i].table_name, order[i].name)}
             bound2 == bound \/ ~r.val
             st2 == IF r.val THEN st ELSE DeleteVariable(st, order[i])
         IN IF r.exc # ""
            THEN [store |-> st, exc |-> r.exc, val |-> FALSE, asked |-> asked2,
                  commits |-> commits]
            ELSE IF ~bound2
            THEN [store |-> st, exc |-> "UnboundLocalError", val |-> FALSE,
                  asked |-> asked2, commits |-> commits]
            ELSE RepairLoop(st2, broker, order, i + 1, bound2,
                            Append(commits, st2), asked2)

QuerySet_remote_repair(st, broker, q, order) ==
    LET t == exists_remotely(broker, q.table_name, None)
        asked == {Path(q.table_name, None)}
    IN IF t.exc # ""
       THEN [store |-> st, exc |-> t.exc, val |-> FALSE, asked |-> asked,
             commits |-> <<>>]
       ELSE IF ~t.val
       THEN [store |-> DeleteQuerySet(st, q), exc |-> "", val |-> TRUE,
             asked |-> asked, commits |-> <<DeleteQuerySet(st, q)>>]
       ELSE RepairLoop(st, broker, order, 1, FALSE, <<>>, asked)

(***************************************************************************)
(* The registries the service can start on: every queryset name is either  *)
(* free or registered on one table with a set of that table's columns; the *)
(* store holds exactly the Table and Column rows those querysets use, the  *)
(* Column rows numbered in the order they were inserted.                   *)
(***************************************************************************)
TableIndex(t) == CHOOSE i \in DOMAIN TableNames : TableNames[i] = t
ColumnIndex(c) == CHOOSE i \in DOMAIN ColumnNames : ColumnNames[i] = c
PairIndex(t, c) == (TableIndex(t) - 1) * Len(ColumnNames) + ColumnIndex(c)

Registrations ==
    {r \in [Names -> [table_name : Tables \cup {None}, cols : SUBSET Columns]] :
        \A n \in Names : r[n].table_name = None => r[n].cols = {}}

Registered(r) == {n \in Names : r[n].table_name # None}

UsedPairs(r) == {<<r[n].table_name, c>> : n \in Registered(r), c \in Columns}
                    \cap UNION {{<<r[n].table_name, c>> : c \in r[n].cols} : n \in Registered(r)}

SeedVariableId(r, p) ==
    Cardinality({p2 \in UsedPairs(r) : PairIndex(p2[1], p2[2]) <= PairIndex(p[1], p[2])})

SeedStore(r) ==
    [maintable |-> {r[n].table_name : n \in Registered(r)},
     variable |-> {[variable_id |-> SeedVariableId(r, p), name |-> p[2],
                    table_name |-> p[1]] : p \in UsedPairs(r)},
     queryset |-> {[name |-> n, table_name |-> r[n].table_name] : n \in Registered(r)},
     querysets_variables |->
        UNION {{[variable_id |-> SeedVariableId(r, <<r[n].table_name, c>>),
                 queryset_name |-> n] : c \in r[n].cols} : n \in Registered(r)}]

(***************************************************************************)
(* The request handlers.  Each yields the store it leaves committed, the   *)
(* HTTP status, the exception that ended it ("" when it returned) and the  *)
(* response body.  A handler that returns or raises before sess.commit()   *)
(* leaves the store as it found it: closing(sess) discards the session.    *)
(***************************************************************************)
Reply(st, status, exc, body, asked) ==
    [store |-> st, status |-> status, exc |-> exc, body |-> body, asked |-> asked]

\* the fields pydantic declares on QuerySetPost
QuerySetPostFields == {"name", "columns", "table"}

\* attribute access on a posted QuerySetPost
GetAttr(post, attr) ==
    IF attr \in QuerySetPostFields THEN Returned(post[attr])
    ELSE Raised("AttributeError")

Max(S) == CHOOSE x \in S : \A y \in S : y <= x

\* SQLite gives an INTEGER PRIMARY KEY row one more than the largest id in use
NextVariableId(st) ==
    IF st.variable = {} THEN 1 ELSE Max({v.variable_id : v \in st.variable}) + 1

\* sess.query(MainColumn).filter(name, table)
FindColumn(st, table_name, name) ==
    {v \in st.variable : v.table_name = table_name /\ v.name = name}

\* a lookup that never finds the row and always inserts
GetOrCreateColumn_insert(st, table_name, name) ==
    LET v == [variable_id |-> NextVariableId(st), name |-> name,
              table_name |-> table_name]
    IN [store |-> [st EXCEPT !.variable = @ \cup {v}], column |-> v]

\* .first() of that query, or a new MainColumn flushed into the session
GetOrCreateColumn(st, table_name, name) ==
    IF FindColumn(st, table_name, name) # {}
    THEN [store |-> st, column |-> CHOOSE v \in FindColumn(st, table_name, name) : TRUE]
    ELSE LET v == [variable_id |-> NextVariableId(st), name |-> name,
                   table_name |-> table_name]
         IN [store |-> [st EXCEPT !.variable = @ \cup {v}], column |-> v]

\* the loop of `assert exists_remotely(table, c)` over the posted columns:
\* status "" when all pass, else the status the handler ends with
RECURSIVE CheckColumns(_, _, _, _, _)
CheckColumns(broker, table_name, columns, i, asked) ==
    IF i > Len(columns) THEN [status |-> "", exc |-> "", asked |-> asked]
    ELSE LET r == exists_remotely(broker, table_name, columns[i])
             asked2 == asked \cup {Path(table_name, columns[i])}
         IN IF r.exc # "" THEN [status |-> "500", exc |-> r.exc, asked |-> asked2]
            ELSE IF ~r.val THEN [status |-> "400", exc |-> "", asked |-> asked2]
            ELSE CheckColumns(broker, table_name, columns, i + 1, asked2)

RECURSIVE CollectColumns(_, _, _, _, _)
CollectColumns(st, table_name, columns, i, acc) ==
    IF i > Len(columns) THEN [store |-> st, columns |-> acc]
    ELSE LET g == GetOrCreateColumn(st, table_name, columns[i]) IN
         CollectColumns(g.store, table_name, columns, i + 1, acc \cup {g.column})

Associations(name, vs) ==
    {[variable_id |-> v.variable_id, queryset_name |-> name] : v \in vs}

\* a delete that acknowledges without committing the deletion
qset_delete_uncommitted(st, name) ==
    IF GetQuerySet(st, name) = {} THEN Reply(st, "404", "", {}, {})
    ELSE Reply(st, "204", "", {}, {})

qset_delete(st, name) ==
    IF GetQuerySet(st, name) = {} THEN Reply(st, "404", "", {}, {})
    ELSE LET existing == CHOOSE q \in GetQuerySet(st, name) : TRUE IN
         Reply(DeleteQuerySet(st, existing), "204", "", {}, {})

\* qset_update after the lookup has found `existing`: the checks, the
\* get-or-create of the columns, the assignment to existing.variables (which
\* loads the collection it replaces) and the commit
qset_update_body(st, broker, existing, columns) ==
    LET checked == CheckColumns(broker, existing.table_name, columns, 1, {})
        \* existing.table is None when no maintable row carries the name
        table == IF existing.table_name \in st.maintable
                 THEN existing.table_name ELSE None
        got == CollectColumns(st, table, columns, 1, {})
        old == QuerySet_variables(st, existing.name)
    IN IF checked.status # ""
       THEN Reply(st, checked.status, checked.exc, {}, checked.asked)
       ELSE Reply([got.store EXCEPT !.querysets_variables =
                       (@ \ LoadedAssociations(st, existing.name, old))
                           \cup Associations(existing.name, got.columns)],
                  "204", "", {}, checked.asked)

\* an update that adds the new columns to the ones already associated
qset_update_merge(st, broker, name, columns) ==
    IF GetQuerySet(st, name) = {} THEN Reply(st, "404", "", {}, {})
    ELSE LET existing == CHOOSE q \in GetQuerySet(st, name) : TRUE
             checked == CheckColumns(broker, existing.table_name, columns, 1, {})
             got == CollectColumns(st, existing.table_name, columns, 1, {})
         IN IF checked.status # ""
            THEN Reply(st, checked.status, checked.exc, {}, checked.asked)
            ELSE Reply([got.store EXCEPT !.querysets_variables =
                            @ \cup Associations(name, got.columns)],
                       "204", "", {}, checked.asked)

\* an update that commits the columns it has collected before it rejects
qset_update_eager(st, broker, name, columns) ==
    IF GetQuerySet(st, name) = {} THEN Reply(st, "404", "", {}, {})
    ELSE LET existing == CHOOSE q \in GetQuerySet(st, name) : TRUE
             checked == CheckColumns(broker, existing.table_name, columns, 1, {})
             got == CollectColumns(st, existing.table_name, columns, 1, {})
             old == QuerySet_variables(st, name)
         IN IF checked.status # ""
            THEN Reply(got.store, checked.status, checked.exc, {}, checked.asked)
            ELSE Reply([got.store EXCEPT !.querysets_variables =
                            (@ \ LoadedAssociations(st, name, old))
                                \cup Associations(name, got.columns)],
                       "204", "", {}, checked.asked)

qset_update(st, broker, name, columns) ==
    IF GetQuerySet(st, name) = {} THEN Reply(st, "404", "", {}, {})
    ELSE qset_update_body(st, broker, CHOOSE q \in GetQuerySet(st, name) : TRUE,
                          columns)

\* qset_create after the lookup has found the name free
qset_create_body(st, broker, post) ==
    LET table_name == GetAttr(post, "table_name") IN
    IF table_name.exc # "" THEN Reply(st, "500", table_name.exc, {}, {})
    ELSE LET t == exists_remotely(broker, table_name.val, None)
             checked == CheckColumns(broker, table_name.val, post.columns, 1,
                                     {Path(table_name.val, None)})
             \* a missing Table row is created under the queryset's name
             table == IF post.table \in st.maintable THEN post.table ELSE post.name
             st2 == [st EXCEPT !.maintable = @ \cup {table}]
             got == CollectColumns(st2, table, post.columns, 1, {})
         IN IF t.exc # "" THEN Reply(st, "500", t.exc, {}, {Path(table_name.val, None)})
            ELSE IF ~t.val THEN Reply(st, "400", "", {}, {Path(table_name.val, None)})
            ELSE IF checked.status # ""
            THEN Reply(st, checked.status, checked.exc, {}, checked.asked)
            \* the primary key of queryset refuses a name taken meanwhile
            ELSE IF GetQuerySet(st, post.name) # {}
            THEN Reply(st, "500", "IntegrityError", {}, checked.asked)
            ELSE Reply([got.store EXCEPT
                            !.queryset = @ \cup {[name |-> post.name,
                                                  table_name |-> post.table]},
                            !.querysets_variables =
                                @ \cup Associations(post.name, got.columns)],
                       "200", "", {post.name}, checked.asked)

\* a create that does not look the name up first
qset_create_unchecked(st, broker, post) ==
    LET table_name == GetAttr(post, "table_name") IN
    IF table_name.exc # "" THEN Reply(st, "500", table_name.exc, {}, {})
    ELSE Reply(st, "400", "", {}, {Path(table_name.val, None)})

qset_create(st, broker, post) ==
    IF GetQuerySet(st, post.name) # {} THEN Reply(st, "409", "", {}, {})
    ELSE qset_create_body(st, broker, post)

\* a detail that repairs the queryset before answering, its table taken
\* for absent
qset_detail_healing(st, name) ==
    IF GetQuerySet(st, name) = {} THEN Reply(st, "404", "", {}, {})
    ELSE LET existing == CHOOSE q \in GetQuerySet(st, name) : TRUE IN
         Reply(DeleteQuerySet(st, existing), "200", "", VariableNames(st, name),
               {Path(existing.table_name, None)})

qset_detail(st, name) ==
    IF GetQuerySet(st, name) = {} THEN Reply(st, "404", "", {}, {})
    ELSE Reply(st, "200", "", VariableNames(st, name), {})

qset_list(st) ==
    Reply(st, "200", "",
          {[name |-> q.name, variables |-> Cardinality(QuerySet_variables(st, q.name))]
              : q \in st.queryset}, {})

(***************************************************************************)
(* Requests and responses.                                                 *)
(***************************************************************************)
NoBroker == [p \in {} |-> "200"]

Idle == [op |-> "", name |-> "", table |-> "", columns |-> <<>>,
         broker |-> NoBroker, order |-> <<>>, exc |-> "", val |-> FALSE,
         status |-> "", body |-> {}, asked |-> {}, pre |-> EmptyStore,
         commits |-> <<>>]

Commit(st) ==
    /\ maintable' = st.maintable
    /\ variable' = st.variable
    /\ queryset' = st.queryset
    /\ querysets_variables' = st.querysets_variables

\* the threads of the pool
Procs == {1, 2}

\* a Session that has served nothing yet
NoSession == [op |-> "", name |-> "", table |-> "", columns |-> <<>>,
              pc |-> "idle", existing |-> {}, order |-> <<>>, i |-> 0,
              expired |-> FALSE, bound |-> FALSE, status |-> "", exc |-> "",
              pre |-> EmptyStore, arrived |-> 0]

\* the service takes a request when the previous one has been answered
Accept ==
    /\ last = Idle
    /\ requests < MaxRequests
    /\ requests' = requests + 1
    /\ UNCHANGED <<authority, sessions>>

Init ==
    /\ \E r \in Registrations : 
          /\ maintable = SeedStore(r).maintable
          /\ variable = SeedStore(r).variable
          /\ queryset = SeedStore(r).queryset
          /\ querysets_variables = SeedStore(r).querysets_variables
    /\ last = Idle
    /\ requests = 0
    /\ authority = NoBroker
    /\ sessions = [p \in Procs |-> NoSession]

Validate(name) ==
    /\ Accept
    /\ \E q \in GetQuerySet(Store, name) :
       \E order \in Orders(QuerySet_variables(Store, name)) :
       \E broker \in [QuerySetPaths(q, Range(order)) -> Responses] :
          LET r == QuerySet_remote_validate(Store, broker, q, order) IN
          /\ Commit(r.store)
          /\ last' = [Idle EXCEPT !.op = "Validate", !.name = name,
                         !.table = q.table_name, !.broker = broker, !.order = order,
                         !.exc = r.exc, !.val = r.val, !.asked = r.asked,
                         !.pre = Store, !.commits = r.commits]

Repair(name) ==
    /\ Accept
    /\ \E q \in GetQuerySet(Store, name) :
       \E order \in Orders(QuerySet_variables(Store, name)) :
       \E broker \in [QuerySetPaths(q, Range(order)) -> Responses] :
          LET r == QuerySet_remote_repair(Store, broker, q, order) IN
          /\ Commit(r.store)
          /\ last' = [Idle EXCEPT !.op = "Repair", !.name = name,
                         !.table = q.table_name, !.broker = broker, !.order = order,
                         !.exc = r.exc, !.val = r.val, !.asked = r.asked,
                         !.pre = Store, !.commits = r.commits]

\* qset_update queries the broker about the stored queryset's table only
UpdatePaths(st, name, columns) ==
    UNION {Paths(q.table_name, Range(columns)) \ {Path(q.table_name, None)}
              : q \in GetQuerySet(st, name)}

Create(name, table, columns) ==
    /\ Accept
    /\ \E broker \in Brokers(table, Range(columns)) :
          LET post == [name |-> name, columns |-> columns, table |-> table]
              r == qset_create(Store, broker, post) IN
          /\ Commit(r.store)
          /\ last' = [Idle EXCEPT !.op = "Create", !.name = name, !.table = table,
                         !.columns = columns, !.broker = broker, !.exc = r.exc,
                         !.status = r.status, !.body = r.body,
                         !.asked = r.asked, !.pre = Store]

Update(name, columns) ==
    /\ Accept
    /\ \E broker \in [UpdatePaths(Store, name, columns) -> Responses] :
          LET r == qset_update(Store, broker, name, columns)
              table == IF GetQuerySet(Store, name) = {} THEN ""
                       ELSE (CHOOSE q \in GetQuerySet(Store, name) : TRUE).table_name IN
          /\ Commit(r.store)
          /\ last' = [Idle EXCEPT !.op = "Update", !.name = name, !.table = table,
                         !.columns = columns, !.broker = broker, !.exc = r.exc,
                         !.status = r.status, !.body = r.body,
                         !.asked = r.asked, !.pre = Store]

Delete(name) ==
    /\ Accept
    /\ LET r == qset_delete(Store, name) IN
          /\ Commit(r.store)
          /\ last' = [Idle EXCEPT !.op = "Delete", !.name = name, !.exc = r.exc,
                         !.status = r.status, !.body = r.body,
                         !.asked = r.asked, !.pre = Store]

Detail(name) ==
    /\ Accept
    /\ LET r == qset_detail(Store, name) IN
          /\ Commit(r.store)
          /\ last' = [Idle EXCEPT !.op = "Detail", !.name = name, !.exc = r.exc,
                         !.status = r.status, !.body = r.body,
                         !.asked = r.asked, !.pre = Store]

List ==
    /\ Accept
    /\ LET r == qset_list(Store) IN
          /\ Commit(r.store)
          /\ last' = [Idle EXCEPT !.op = "List", !.exc = r.exc,
                         !.status = r.status, !.body = r.body,
                         !.asked = r.asked, !.pre = Store]

Respond ==
    /\ last # Idle
    /\ last' = Idle
    /\ UNCHANGED <<maintable, variable, queryset, querysets_variables, requests,
                   authority, sessions>>

Next ==
    \/ \E name \in Names, table \in Tables, columns \in ColumnLists :
          Create(name, table, columns)
    \/ \E name \in Names, columns \in ColumnLists : Update(name, columns)
    \/ \E name \in Names : Delete(name)
    \/ \E name \in Names : Detail(name)
    \/ List
    \/ \E name \in Names : Validate(name)
    \/ \E name \in Names : Repair(name)
    \/ Respond

Spec == Init /\ [][Next]_vars

(***************************************************************************)
(* Two requests on the thread pool.  A handler's lookup and the rest of it *)
(* are separate steps, and so is every iteration of remote_repair's loop,  *)
(* which commits; between them the other thread can run.  pysqlite opens   *)
(* no transaction for a SELECT, so a Session reads what the other has      *)
(* committed.  The registry is on one table and the broker's schema is     *)
(* fixed while the two requests run and answers every path.                *)
(***************************************************************************)
ConcurrentTable == TableNames[1]

ConcurrentRegistrations ==
    {r \in Registrations : \A n \in Names : r[n].table_name \in {None, ConcurrentTable}}

Authorities == [Paths(ConcurrentTable, Columns) -> {"200", "404"}]

InitConcurrent ==
    /\ \E r \in ConcurrentRegistrations :
          /\ maintable = SeedStore(r).maintable
          /\ variable = SeedStore(r).variable
          /\ queryset = SeedStore(r).queryset
          /\ querysets_variables = SeedStore(r).querysets_variables
    /\ last = Idle
    /\ requests = 0
    /\ authority \in Authorities
    /\ sessions = [p \in Procs |-> NoSession]

\* Session(): the request reaches a free thread
Arrive(p, op, name) ==
    [NoSession EXCEPT !.op = op, !.name = name, !.pre = Store,
                      !.arrived = requests + 1]

\* the handler has returned or raised
Done(s, status, exc) == [s EXCEPT !.pc = "done", !.status = status, !.exc = exc]

\* sess.query(QuerySet).get(name) of the three handlers
Lookup(p, s) ==
    /\ sessions' = [sessions EXCEPT ![p] =
            [s EXCEPT !.existing = GetQuerySet(Store, s.name), !.pc = "body"]]
    /\ requests' = requests + 1
    /\ UNCHANGED <<maintable, variable, queryset, querysets_variables, last, authority>>

Finish(p, r) ==
    /\ Commit(r.store)
    /\ sessions' = [sessions EXCEPT ![p] = Done(@, r.status, r.exc)]
    /\ UNCHANGED <<last, requests, authority>>

At(p, op) == sessions[p].op = op /\ sessions[p].pc = "body"

BeginCreate(p, name, table, columns) ==
    /\ sessions[p].op = ""
    /\ Lookup(p, [Arrive(p, "Create", name) EXCEPT !.table = table,
                                                  !.columns = columns])

EndCreate(p) ==
    /\ At(p, "Create")
    /\ LET s == sessions[p]
           post == [name |-> s.name, columns |-> s.columns, table |-> s.table]
       IN Finish(p, IF s.existing # {} THEN Reply(Store, "409", "", {}, {})
                    ELSE qset_create_body(Store, authority, post))

BeginUpdate(p, name, columns) ==
    /\ sessions[p].op = ""
    /\ Lookup(p, [Arrive(p, "Update", name) EXCEPT !.columns = columns])

EndUpdate(p) ==
    /\ At(p, "Update")
    /\ LET s == sessions[p] IN
       Finish(p, IF s.existing = {} THEN Reply(Store, "404", "", {}, {})
                 ELSE qset_update_body(Store, authority,
                                       CHOOSE q \in s.existing : TRUE, s.columns))

BeginDelete(p, name) ==
    /\ sessions[p].op = ""
    /\ Lookup(p, Arrive(p, "Delete", name))

\* a DELETE that matches no row is a warning of the ORM, not an error
EndDelete(p) ==
    /\ At(p, "Delete")
    /\ LET s == sessions[p] IN
       Finish(p, IF s.existing = {} THEN Reply(Store, "404", "", {}, {})
                 ELSE Reply(DeleteQuerySet(Store, CHOOSE q \in s.existing : TRUE),
                            "204", "", {}, {}))

\* remote_repair up to its loop: the table check, then either the deletion
\* of the queryset or the load of self.variables
BeginRepair(p, name) ==
    /\ sessions[p].op = ""
    /\ \E q \in GetQuerySet(Store, name) :
       \E order \in Orders(QuerySet_variables(Store, name)) :
          LET s == [Arrive(p, "Repair", name) EXCEPT
                        !.table = q.table_name, !.existing = {q}, !.order = order,
                        !.i = 1]
              t == exists_remotely(authority, q.table_name, None)
          IN IF t.exc # ""
             THEN /\ sessions' = [sessions EXCEPT ![p] = Done(s, "", t.exc)]
                  /\ UNCHANGED <<maintable, variable, queryset, querysets_variables>>
             ELSE IF ~t.val
             THEN /\ sessions' = [sessions EXCEPT ![p] = Done(s, "", "")]
                  /\ Commit(DeleteQuerySet(Store, q))
             ELSE /\ sessions' = [sessions EXCEPT ![p] =
                        IF order = <<>> THEN Done(s, "", "") ELSE [s EXCEPT !.pc = "loop"]]
                  /\ UNCHANGED <<maintable, variable, queryset, querysets_variables>>
    /\ requests' = requests + 1
    /\ UNCHANGED <<last, authority>>

\* the row a Session finds under the primary key of an instance it holds
Refresh(st, v) == {w \in st.variable : w.variable_id = v.variable_id}

\* DELETE FROM variable WHERE variable_id = ?
DeleteVariableRow(st, v) == [st EXCEPT !.variable = @ \ Refresh(st, v)]

\* one iteration of remote_repair's loop.  The commit of an earlier
\* iteration has expired the instances of the Session, so reading
\* variable.table_name loads the row again and raises ObjectDeletedError
\* when it is gone.
RepairStep(p) ==
    /\ sessions[p].op = "Repair"
    /\ sessions[p].pc = "loop"
    /\ LET s == sessions[p]
           loaded == s.order[s.i]
           v == IF s.expired /\ Refresh(Store, loaded) # {}
                THEN CHOOSE w \in Refresh(Store, loaded) : TRUE ELSE loaded
           r == MainColumn_remote_validate(authority, v)
           bound == s.bound \/ ~r.val
           next == [s EXCEPT !.i = @ + 1, !.bound = bound, !.expired = TRUE]
       IN IF s.expired /\ Refresh(Store, loaded) = {}
          THEN /\ sessions' = [sessions EXCEPT ![p] = Done(s, "", "ObjectDeletedError")]
               /\ UNCHANGED <<maintable, variable, queryset, querysets_variables>>
          ELSE IF r.exc # ""
          THEN /\ sessions' = [sessions EXCEPT ![p] = Done(s, "", r.exc)]
               /\ UNCHANGED <<maintable, variable, queryset, querysets_variables>>
          ELSE IF ~bound
          THEN /\ sessions' = [sessions EXCEPT ![p] = Done(s, "", "UnboundLocalError")]
               /\ UNCHANGED <<maintable, variable, queryset, querysets_variables>>
          ELSE /\ sessions' = [sessions EXCEPT ![p] =
                     IF s.i = Len(s.order) THEN Done(next, "", "") ELSE next]
               /\ Commit(IF r.val THEN Store ELSE DeleteVariableRow(Store, v))
    /\ UNCHANGED <<last, requests, authority>>

NextConcurrent ==
    \E p \in Procs :
        \/ \E name \in Names, columns \in ColumnLists :
              BeginCreate(p, name, ConcurrentTable, columns)
        \/ EndCreate(p)
        \/ \E name \in Names, columns \in ColumnLists : BeginUpdate(p, name, columns)
        \/ EndUpdate(p)
        \/ \E name \in Names : BeginDelete(p, name)
        \/ EndDelete(p)
        \/ \E name \in Names : BeginRepair(p, name)
        \/ RepairStep(p)

SpecConcurrent == InitConcurrent /\ [][NextConcurrent]_vars

(***************************************************************************)
(* The Authority's answers in the spec's terms.                            *)
(***************************************************************************)
Exists(broker, p) == broker[p] = "200"
Absent(broker, p) == broker[p] = "404"
Indeterminate(broker, p) == broker[p] \notin {"200", "404"}
Determinate(broker) == \A p \in DOMAIN broker : ~Indeterminate(broker, p)

\* the exceptions with which an Indeterminate answer reaches the caller
BrokerErrors == {"ValueError", "ConnectionError"}

Unregistered == GetQuerySet(last.pre, last.name) = {}

\* the columns of the request's queryset before the request, and those of
\* them the Authority reports absent
ColumnsBefore == QuerySet_variables(last.pre, last.name)
AbsentBefore == {v \in ColumnsBefore : Absent(last.broker, Path(last.table, v.name))}

\* C1: Create of an unregistered name, with the Authority answering Exists for
\* the table and every requested column, succeeds and leaves the Table row, a
\* Column row (table, c) for every requested c and the Queryset row with
\* exactly the requested columns.
C1_CreateSucceeds ==
    (/\ last.op = "Create"
     /\ Unregistered
     /\ \A p \in DOMAIN last.broker : Exists(last.broker, p))
    => /\ last.status = "200"
       /\ last.table \in maintable
       /\ \A c \in Range(last.columns) : FindColumn(Store, last.table, c) # {}
       /\ [name |-> last.name, table_name |-> last.table] \in queryset
       /\ VariableNames(Store, last.name) = Range(last.columns)

\* C2: Create of an unregistered name is rejected with InvalidReference (400)
\* when the Authority reports the table or a requested column Absent, and the
\* store is left unchanged.
C2_CreateRejectsInvalidReference ==
    (/\ last.op = "Create"
     /\ Unregistered
     /\ Determinate(last.broker)
     /\ \E p \in DOMAIN last.broker : Absent(last.broker, p))
    => /\ last.status = "400"
       /\ Store = last.pre

\* C3: an Indeterminate answer received during Validate or Repair reaches the
\* caller as an error and is not taken for Absent: nothing is deleted and
\* nothing is committed in that pass.
C3_IndeterminatePropagates ==
    (/\ last.op \in {"Validate", "Repair"}
     /\ \E p \in last.asked : Indeterminate(last.broker, p))
    => /\ last.exc \in BrokerErrors
       /\ Store = last.pre
       /\ last.commits = <<>>

\* C4: after a Repair that completes on a queryset whose table exists, every
\* column still on the queryset exists per the Authority, and every column
\* removed was reported absent.
C4_RepairMonotonic ==
    (/\ last.op = "Repair"
     /\ Exists(last.broker, Path(last.table, None))
     /\ last.exc = "")
    => /\ \A v \in QuerySet_variables(Store, last.name) :
             Exists(last.broker, Path(last.table, v.name))
       /\ \A v \in ColumnsBefore \ QuerySet_variables(Store, last.name) :
             Absent(last.broker, Path(last.table, v.name))

\* C5: when the Authority reports the queryset's table absent, Repair deletes
\* the queryset and Validate returns false, whatever the answers for the
\* queryset's columns are.
C5_TableAbsenceCascades ==
    (/\ last.op \in {"Validate", "Repair"}
     /\ Absent(last.broker, Path(last.table, None)))
    => /\ last.exc = ""
       /\ last.op = "Repair" => GetQuerySet(Store, last.name) = {}
       /\ last.op = "Validate" => last.val = FALSE

\* C6: with determinate answers and the table existing, Repair completes
\* without error; it changes nothing when every column exists, and otherwise
\* removes exactly the absent columns.
C6_RepairOutcome ==
    (/\ last.op = "Repair"
     /\ Exists(last.broker, Path(last.table, None))
     /\ Determinate(last.broker))
    => /\ last.exc = ""
       /\ AbsentBefore = {} => Store = last.pre
       /\ last.pre.variable \ variable = AbsentBefore

\* C7: every store a Repair commits, and the store it ends on, has either all
\* or none of the queryset's Authority-absent columns removed.
PartlyPruned(st) ==
    /\ AbsentBefore \cap st.variable # {}
    /\ AbsentBefore \ st.variable # {}

C7_RepairAtomic ==
    last.op = "Repair"
    => /\ ~PartlyPruned(Store)
       /\ \A i \in DOMAIN last.commits : ~PartlyPruned(last.commits[i])

\* C8: when another queryset on the same table shares a column with the
\* repaired one and the Authority reports that column absent (the table
\* exists, every answer is determinate), after the Repair the column is in
\* the column set of neither queryset.
SharedAbsent ==
    {x \in AbsentBefore :
        \E q \in last.pre.queryset :
            /\ q.name # last.name
            /\ q.table_name = last.table
            /\ x \in QuerySet_variables(last.pre, q.name)}

C8_SharedColumnDeletion ==
    (/\ last.op = "Repair"
     /\ Exists(last.broker, Path(last.table, None))
     /\ Determinate(last.broker))
    => \A x \in SharedAbsent : \A q \in last.pre.queryset :
          x.name \notin VariableNames(Store, q.name)

\* C9: Validate leaves the Table, Column and Queryset rows and the
\* queryset-column associations as they were, whatever the Authority answers.
C9_ValidatePure ==
    last.op = "Validate" => Store = last.pre

C9_Witness ==
    /\ last.op = "Validate"
    /\ ColumnsBefore # {}
    /\ \E p \in last.asked : Absent(last.broker, p)
    /\ \E p \in DOMAIN last.broker : Indeterminate(last.broker, p)

\* C10: with determinate answers Validate returns true exactly when the
\* table exists and every column of the queryset exists, in whatever order the
\* columns are checked; with no columns, exactly when the table exists.
C10_ValidateIsConjunction ==
    (/\ last.op = "Validate"
     /\ Determinate(last.broker))
    => /\ last.exc = ""
       /\ last.val <=>
            /\ Exists(last.broker, Path(last.table, None))
            /\ \A v \in ColumnsBefore : Exists(last.broker, Path(last.table, v.name))

C10_Witness ==
    /\ last.op = "Validate"
    /\ Determinate(last.broker)
    /\ Len(last.order) > 1
    /\ Exists(last.broker, Path(last.table, None))
    /\ Absent(last.broker, Path(last.table, last.order[1].name))
    /\ Exists(last.broker, Path(last.table, last.order[Len(last.order)].name))
    /\ last.val = FALSE

\* the first posted column the Authority does not report as existing on the
\* request's table (0 when every posted column exists)
FirstRefused ==
    LET bad == {i \in DOMAIN last.columns :
                    ~Exists(last.broker, Path(last.table, last.columns[i]))}
    IN IF bad = {} THEN 0 ELSE CHOOSE i \in bad : \A j \in bad : i <= j

\* C11: after a successful Update the queryset's column set is exactly the
\* posted columns, and its row (name and table) is the one it had.
C11_UpdateReplaces ==
    (/\ last.op = "Update"
     /\ last.status = "204")
    => /\ VariableNames(Store, last.name) = Range(last.columns)
       /\ \A v \in QuerySet_variables(Store, last.name) : v.name \in Range(last.columns)
       /\ GetQuerySet(Store, last.name) = GetQuerySet(last.pre, last.name)
       /\ GetQuerySet(Store, last.name) # {}

C11_Witness ==
    /\ last.op = "Update"
    /\ last.status = "204"
    /\ VariableNames(last.pre, last.name) \ Range(last.columns) # {}
    /\ Range(last.columns) \ VariableNames(last.pre, last.name) # {}
    /\ Range(last.columns) \cap VariableNames(last.pre, last.name) = {}

\* C12 as claimed: Update is rejected with NotFound for an absent name, and
\* with InvalidReference whenever the Authority reports a posted column
\* absent; the store is unchanged in both rejections.
C12_UpdateRejects ==
    last.op = "Update"
    => /\ Unregistered => (last.status = "404" /\ Store = last.pre)
       /\ (~Unregistered /\ \E c \in Range(last.columns) :
                                Absent(last.broker, Path(last.table, c)))
             => (last.status = "400" /\ Store = last.pre)

\* C12 amended: Update is rejected with NotFound for an absent name; on a
\* registered name the posted columns are checked in order and the first one
\* the Authority does not report as existing ends the request: with
\* InvalidReference when it is reported absent, with the broker's error when
\* the answer is indeterminate.  The store is unchanged in each of these.
C12_UpdateRejectsInOrder ==
    last.op = "Update"
    => /\ Unregistered => (last.status = "404" /\ Store = last.pre)
       /\ (~Unregistered /\ FirstRefused # 0)
             => /\ Store = last.pre
                /\ IF Absent(last.broker, Path(last.table, last.columns[FirstRefused]))
                   THEN last.status = "400" /\ last.exc = ""
                   ELSE last.status = "500" /\ last.exc \in BrokerErrors
       /\ last.status \in {"400", "404", "500"} => Store = last.pre

C12_Witness ==
    /\ last.op = "Update"
    /\ last.status = "400"
    /\ FirstRefused = Len(last.columns)
    /\ Len(last.columns) > 1
    /\ FindColumn(last.pre, last.table, last.columns[1]) = {}

\* C13: Create of a registered name returns Conflict and leaves the store
\* unchanged, whatever it names and whatever the Authority would answer.
C13_DuplicateCreateConflict ==
    (/\ last.op = "Create"
     /\ ~Unregistered)
    => /\ last.status = "409"
       /\ Store = last.pre

C13_Witness ==
    /\ last.op = "Create"
    /\ last.status = "409"
    /\ last.columns # <<>>
    /\ \E q \in GetQuerySet(last.pre, last.name) : q.table_name # last.table
    /\ \E p \in DOMAIN last.broker : Absent(last.broker, p)

\* C14: Delete of an absent name returns NotFound and changes nothing; Delete
\* of a registered name acknowledges and removes it; a name that is absent
\* stays absent through every step that is not a Create of that name, and
\* Get of an absent name returns NotFound: so every Get after a Delete, with
\* no Create of the name in between, returns NotFound.
C14_DeleteThenGet ==
    [][/\ (last.op = "" /\ last'.op = "Delete")
            => IF GetQuerySet(Store, last'.name) = {}
               THEN last'.status = "404" /\ Store' = Store
               ELSE last'.status = "204" /\ GetQuerySet(Store', last'.name) = {}
       /\ \A n \in Names :
            (GetQuerySet(Store, n) = {} /\ ~(last'.op = "Create" /\ last'.name = n))
                => GetQuerySet(Store', n) = {}
       /\ (last.op = "" /\ last'.op = "Detail" /\ GetQuerySet(Store, last'.name) = {})
            => last'.status = "404"]_vars

C14_Witness ==
    /\ last.op = "Delete"
    /\ last.status = "204"
    /\ GetQuerySet(last.pre, last.name) # {}
    /\ QuerySet_variables(last.pre, last.name) # {}
    /\ GetQuerySet(Store, last.name) = {}

\* C15: the store never holds two Column rows with the same (table, name),
\* and an Update that names a column already stored for the table uses that
\* row; the same name may be stored under two tables.
C15_UniqueColumns ==
    /\ \A v1, v2 \in variable :
          (v1.table_name = v2.table_name /\ v1.name = v2.name) => v1 = v2
    /\ (last.op = "Update" /\ last.status = "204")
          => \A c \in Range(last.columns) :
                FindColumn(last.pre, last.table, c) # {}
                    => FindColumn(Store, last.table, c) = FindColumn(last.pre, last.table, c)

C15_Witness ==
    /\ last.op = "Update"
    /\ last.status = "204"
    /\ \E c \in Range(last.columns) :
          /\ FindColumn(last.pre, last.table, c) # {}
          /\ c \notin VariableNames(last.pre, last.name)
    /\ variable # last.pre.variable
    /\ \E v1, v2 \in variable : v1.name = v2.name /\ v1.table_name # v2.table_name

\* C16: every Queryset references a Table row of the store, and every Column
\* in a Queryset's column set belongs to the Queryset's own table.
C16_ReferencesWellFormed ==
    \A q \in queryset :
        /\ q.table_name \in maintable
        /\ \A v \in QuerySet_variables(Store, q.name) : v.table_name = q.table_name

\* C17: no operation deletes a Table row; a Column row is deleted only by
\* Repair and only when the Authority reports that column absent; Delete and
\* the table-absent branch of Repair remove only the Queryset row and its
\* associations, leaving every Column row and every other Queryset's column
\* set unchanged.
RemovesQuerySetOnly ==
    \/ last.op = "Delete"
    \/ last.op = "Repair" /\ Absent(last.broker, Path(last.table, None))

C17_LifecycleFrame ==
    last.op # ""
    => /\ last.pre.maintable \subseteq maintable
       /\ \A v \in last.pre.variable \ variable :
             /\ last.op = "Repair"
             /\ Absent(last.broker, Path(v.table_name, v.name))
       /\ RemovesQuerySetOnly
             => /\ variable = last.pre.variable
                /\ last.pre.queryset \ GetQuerySet(last.pre, last.name) \subseteq queryset
                /\ \A n \in Names \ {last.name} :
                      QuerySet_variables(Store, n) = QuerySet_variables(last.pre, n)

BothDone == \A p \in Procs : sessions[p].pc = "done"

Before == (CHOOSE p \in Procs : sessions[p].arrived = 1)

Handle(s, st) ==
    CASE s.op = "Create" ->
            qset_create(st, authority,
                        [name |-> s.name, columns |-> s.columns, table |-> s.table])
      [] s.op = "Update" -> qset_update(st, authority, s.name, s.columns)
      [] s.op = "Delete" -> qset_delete(st, s.name)

InOrder(p1, p2) ==
    LET r1 == Handle(sessions[p1], sessions[Before].pre)
        r2 == Handle(sessions[p2], r1.store)
    IN /\ Store = r2.store
       /\ sessions[p1].status = r1.status
       /\ sessions[p2].status = r2.status

Structural == {"Create", "Update", "Delete"}

SameName ==
    /\ BothDone
    /\ sessions[1].name = sessions[2].name
    /\ \A p \in Procs : sessions[p].op \in Structural

\* C19: two concurrent Creates, Updates or Deletes of one name end in the
\* store and with the results of one of the two sequential orders of the
\* two requests.
C19_Serialized == SameName => (InOrder(1, 2) \/ InOrder(2, 1))

\* the instance C19 names: two concurrent Creates of an unregistered name
\* end with one queryset row of that name, one Created and one Conflict
TwoCreatesOneRow ==
    (/\ SameName
     /\ \A p \in Procs : sessions[p].op = "Create"
     /\ GetQuerySet(sessions[Before].pre, sessions[1].name) = {})
    => /\ Cardinality(GetQuerySet(Store, sessions[1].name)) = 1
       /\ {sessions[p].status : p \in Procs} = {"200", "409"}

\* C20: two concurrent Repairs of different querysets on an existing table,
\* every column of which the Authority reports absent: neither ends on a row
\* the other has deleted, every shared column is deleted, and it is in the
\* column set of neither queryset.
Shared ==
    QuerySet_variables(sessions[Before].pre, sessions[1].name)
        \cap QuerySet_variables(sessions[Before].pre, sessions[2].name)

C20_RepairsDoNotRace ==
    (/\ BothDone
     /\ \A p \in Procs : sessions[p].op = "Repair"
     /\ sessions[1].name # sessions[2].name
     /\ Exists(authority, Path(ConcurrentTable, None))
     /\ \A c \in Columns : Absent(authority, Path(ConcurrentTable, c))
     /\ Shared # {})
    => /\ \A p \in Procs : sessions[p].exc = ""
       /\ Shared \cap variable = {}
       /\ \A p \in Procs : \A x \in Shared :
             x.name \notin VariableNames(Store, sessions[p].name)

====
